---- MODULE Spec2Model ----
(***************************************************************************)
(* A model of dubble::DoubleBuffered<T> (src/src/lib.rs).                  *)
(*                                                                         *)
(* The container is a struct of two fields, rbuf and wbuf.  The model      *)
(* instantiates T at i32 and at Vec<i32> (a String is a Vec of small       *)
(* character codes), drives the container with an arbitrary caller, and    *)
(* represents the references the accessors return as places: the field a   *)
(* reference designates and, for an element reference, the position.       *)
(***************************************************************************)
EXTENDS Integers, Sequences, FiniteSets, TLC

VARIABLES
    ty,         \* the element type T of this instantiation: "i32" or "vec"
    live,       \* the container exists (constructed and not yet consumed)
    rbuf,       \* DoubleBuffered::rbuf
    wbuf,       \* DoubleBuffered::wbuf
    ref,        \* the place designated by the outstanding &mut T, or NoRef
    op,         \* the operation performed by the last step
    arg,        \* its argument, <<v>>, or <<>>
    ret,        \* the value it returned (or the value seen through the
                \* returned shared reference), <<v>>, or <<>>
    outcome,    \* "ok", or "panic" when T's own operation panicked
    fcalls,     \* number of invocations of the constructor closure made by
                \* the last construction
    published,  \* history: rbuf as it was after the most recent
                \* construction, update() or upsert()
    staged,     \* history: the most recent mutation made through a mutable
                \* reference, and whether update() has run since; or NoMut
    publisher,  \* history: the operation that produced published
    delta,      \* history of the last step: it changed rbuf (r), it changed
                \* wbuf (w), the two sides differed before it (dirty)
    rerun,      \* history: the last step was an update() directly after an
                \* update()
    accum,      \* history: the write side's construction value with every
                \* mutation since applied in order (val), and whether the
                \* mutations not yet published came through more than one
                \* accessor (mixed)
    snapshot    \* history: wbuf at the moment of the most recent update()
                \* or upsert(), or rbuf's construction value

vars == <<ty, live, rbuf, wbuf, ref, op, arg, ret, outcome, fcalls,
          published, staged, publisher, delta, rerun, accum, snapshot>>

(***************************************************************************)
(* Bounds of the element types.                                            *)
(***************************************************************************)
MaxInt == 4
MaxElem == 1
MaxLen == 1

Types == {"i32", "vec"}
I32 == 0..MaxInt
Elem == 0..MaxElem
Vecs == UNION {[1..n -> Elem] : n \in 0..MaxLen}
Values == IF ty = "i32" THEN I32 ELSE Vecs
Positions == 0..MaxLen

(***************************************************************************)
(* T's own operations: Clone, Default, Index and IndexMut.                 *)
(***************************************************************************)
\* T::clone: a bitwise copy of an i32, an element-wise copy of a Vec
clone(v) == IF ty = "i32" THEN v ELSE [i \in 1..Len(v) |-> v[i]]

\* T::default: 0 for i32, the empty vector for Vec
T_default == IF ty = "i32" THEN 0 ELSE <<>>

\* T's indexing is defined at position i (0-based) of v; otherwise it panics
InBounds(v, i) == ty = "vec" /\ i >= 0 /\ i < Len(v)

(***************************************************************************)
(* Places: what a returned reference designates.                           *)
(***************************************************************************)
Whole == -1
Place(side, idx) == [side |-> side, idx |-> idx]

\* an outstanding mutable borrow: the place, and the accessor that returned it
NoRef == [side |-> "none", idx |-> Whole, via |-> "none"]
Borrow(p, via) == [side |-> p.side, idx |-> p.idx, via |-> via]

\* a mutation made through a mutable borrow
NoMut == [via |-> "none", kind |-> "none", idx |-> Whole, val |-> <<>>,
          updated |-> FALSE]
Mutation(r, kind, v) ==
    [via |-> r.via, kind |-> kind, idx |-> r.idx, val |-> <<v>>,
     updated |-> FALSE]

\* the value seen through a reference to place p of container self
Load(self, p) ==
    LET field == IF p.side = "rbuf" THEN self.rbuf ELSE self.wbuf
    IN  IF p.idx = Whole THEN field ELSE field[p.idx + 1]

\* the container after v is stored through a mutable reference to place p
Store(self, p, v) ==
    LET field == IF p.side = "rbuf" THEN self.rbuf ELSE self.wbuf
        new_field == IF p.idx = Whole THEN v
                     ELSE [field EXCEPT ![p.idx + 1] = v]
    IN  IF p.side = "rbuf" THEN [self EXCEPT !.rbuf = new_field]
        ELSE [self EXCEPT !.wbuf = new_field]

Self == [rbuf |-> rbuf, wbuf |-> wbuf]

(***************************************************************************)
(* Constructor closures (F: Fn() -> T).  A closure is pure, returning its  *)
(* seed on every call, or impure (it counts its calls in captured state)   *)
(* and returns a different value from the second call on.                  *)
(***************************************************************************)
Bump(v) ==
    IF ty = "i32" THEN (v + 1) % (MaxInt + 1)
    ELSE IF Len(v) < MaxLen THEN Append(v, 0) ELSE Tail(v)

Factories == [seed : Values, pure : BOOLEAN]

\* the n-th call (counting from 0) of closure f: its result and the number
\* of calls made so far
Invoke(f, n) ==
    [value |-> IF f.pure \/ n = 0 THEN f.seed ELSE Bump(f.seed),
     calls |-> n + 1]

(***************************************************************************)
(* The methods of DoubleBuffered<T>.  A constructor yields the fields (and *)
(* the number of closure calls it made); an accessor yields the place its  *)
(* returned reference designates; a mutator yields the new fields.         *)
(***************************************************************************)
\* variant: only the read buffer is initialised from the value
new_read_only(value) ==
    [rbuf |-> clone(value), wbuf |-> T_default, calls |-> 0]

\* variant: only the write buffer is initialised from the value
new_write_only(value) ==
    [rbuf |-> T_default, wbuf |-> clone(value), calls |-> 0]

new(value) ==
    [rbuf |-> clone(value), wbuf |-> clone(value), calls |-> 0]

\* variant: the closure is called once and its result duplicated
construct_with_once(constructor) ==
    LET first == Invoke(constructor, 0)
    IN  [rbuf |-> clone(first.value), wbuf |-> clone(first.value),
         calls |-> first.calls]

construct_with(constructor) ==
    LET first == Invoke(constructor, 0)
        second == Invoke(constructor, first.calls)
    IN  [rbuf |-> first.value, wbuf |-> second.value, calls |-> second.calls]

read(self) == Place("rbuf", Whole)

\* variant: the mutable reference designates the read buffer
write_read_buffer(self) == Place("rbuf", Whole)

write(self) == Place("wbuf", Whole)

\* variant: the copy goes from the read buffer to the write buffer
update_reversed(self) == [self EXCEPT !.wbuf = clone(self.rbuf)]

\* variant: the buffers are swapped instead of copied
update_swap(self) == [rbuf |-> self.wbuf, wbuf |-> self.rbuf]

\* variant: the write buffer is moved into the read buffer, leaving the
\* default value behind
update_take(self) == [rbuf |-> self.wbuf, wbuf |-> T_default]

\* variant: a Vec is copied element by element into the existing read buffer
update_elementwise(self) ==
    IF ty = "i32" THEN [self EXCEPT !.rbuf = self.wbuf]
    ELSE [self EXCEPT !.rbuf =
              [i \in 1..Len(self.rbuf) |->
                  IF i <= Len(self.wbuf) THEN self.wbuf[i] ELSE self.rbuf[i]]]

update(self) == [self EXCEPT !.rbuf = clone(self.wbuf)]

\* variant: the value is written but not published
upsert_no_update(self, value) == Store(self, write(self), value)

upsert(self, value) == update(Store(self, write(self), value))

\* variant: the write buffer is published before the read buffer is returned
unbuffer_read_saving(self) == update(self).rbuf

unbuffer_read(self) == self.rbuf

\* variant: the read buffer is returned
unbuffer_write_read_buffer(self) == self.rbuf

unbuffer_write(self) == self.wbuf

\* variant: Deref targets the same buffer as DerefMut
deref_symmetric(self) == write(self)

deref(self) == read(self)

\* variant: DerefMut targets the same buffer as Deref
deref_mut_symmetric(self) == read(self)

deref_mut(self) == write(self)

\* variant: T's default value is built once and handed to new
default_via_new == new(T_default)

default == construct_with([seed |-> T_default, pure |-> TRUE])

\* variant: Index targets the same buffer as IndexMut
index_symmetric(self, i) == Place("wbuf", i)

index(self, i) == Place("rbuf", i)

\* variant: IndexMut targets the same buffer as Index
index_mut_symmetric(self, i) == Place("rbuf", i)

index_mut(self, i) == Place("wbuf", i)

\* an element reference can be formed: T's indexing does not panic
Indexable(self, p) ==
    InBounds(IF p.side = "rbuf" THEN self.rbuf ELSE self.wbuf, p.idx)

(***************************************************************************)
(* Initial states: the container right after one of its constructors.      *)
(***************************************************************************)
ConstructorOps == {"new", "construct_with", "default"}

InitWith(c, o, a) ==
    /\ live = TRUE
    /\ rbuf = c.rbuf
    /\ wbuf = c.wbuf
    /\ ref = NoRef
    /\ op = o
    /\ arg = a
    /\ ret = <<>>
    /\ outcome = "ok"
    /\ fcalls = c.calls
    /\ published = c.rbuf
    /\ staged = NoMut
    /\ publisher = o
    /\ delta = [r |-> FALSE, w |-> FALSE, dirty |-> FALSE]
    /\ rerun = FALSE
    /\ accum = [val |-> c.wbuf, mixed |-> FALSE]
    /\ snapshot = c.rbuf

Init ==
    /\ ty \in Types
    /\ \/ \E v \in Values : InitWith(new(v), "new", <<v>>)
       \/ \E f \in Factories :
              InitWith(construct_with(f), "construct_with", <<f>>)
       \/ InitWith(default, "default", <<>>)

(***************************************************************************)
(* Steps of the caller.                                                    *)
(***************************************************************************)
\* what a step leading to fields s does to the two sides
Delta(s) ==
    [r |-> s.rbuf # rbuf, w |-> s.wbuf # wbuf, dirty |-> rbuf # wbuf]

\* a constructor call; the new container replaces the modelled one
Construct(c, o, a) ==
    /\ live' = TRUE
    /\ rbuf' = c.rbuf
    /\ wbuf' = c.wbuf
    /\ ref' = NoRef
    /\ op' = o
    /\ arg' = a
    /\ ret' = <<>>
    /\ outcome' = "ok"
    /\ fcalls' = c.calls
    /\ published' = c.rbuf
    /\ staged' = NoMut
    /\ publisher' = o
    /\ delta' = Delta(c)
    /\ rerun' = FALSE
    /\ accum' = [val |-> c.wbuf, mixed |-> FALSE]
    /\ snapshot' = c.rbuf
    /\ UNCHANGED ty

New == \E v \in Values : Construct(new(v), "new", <<v>>)

ConstructWith ==
    \E f \in Factories : Construct(construct_with(f), "construct_with", <<f>>)

Default == Construct(default, "default", <<>>)

\* a step on the live container that leaves it in state s with borrow b
\* outstanding, after operation o with argument a, returning r
Step(s, b, o, a, r, out) ==
    /\ live
    /\ rbuf' = s.rbuf
    /\ wbuf' = s.wbuf
    /\ ref' = b
    /\ op' = o
    /\ arg' = a
    /\ ret' = r
    /\ outcome' = out
    /\ delta' = Delta(s)
    /\ rerun' = (o = "update" /\ op = "update")
    /\ UNCHANGED <<ty, live, fcalls>>

\* variant: read() brings the read buffer up to date before returning it
Read_publishing ==
    /\ Step(update(Self), NoRef, "read", <<>>,
            <<Load(update(Self), read(Self))>>, "ok")
    /\ UNCHANGED <<published, staged, publisher, accum, snapshot>>

\* let x = db.read(); the value seen through the returned &T
Read ==
    /\ Step(Self, NoRef, "read", <<>>, <<Load(Self, read(Self))>>, "ok")
    /\ UNCHANGED <<published, staged, publisher, accum, snapshot>>

\* let wb = db.write();
Write ==
    /\ Step(Self, Borrow(write(Self), "write"), "write", <<>>, <<>>, "ok")
    /\ UNCHANGED <<published, staged, publisher, accum, snapshot>>

\* db.update();
Update ==
    /\ Step(update(Self), NoRef, "update", <<>>, <<>>, "ok")
    /\ published' = rbuf'
    /\ publisher' = "update"
    /\ snapshot' = wbuf
    /\ UNCHANGED accum
    /\ staged' = IF staged = NoMut THEN NoMut
                 ELSE [staged EXCEPT !.updated = TRUE]

\* db.upsert(v);
Upsert ==
    \E v \in Values :
        /\ Step(upsert(Self, v), NoRef, "upsert", <<v>>, <<>>, "ok")
        /\ published' = rbuf'
        /\ publisher' = "upsert"
        /\ snapshot' = v
        /\ accum' = [val |-> v, mixed |-> FALSE]
        /\ staged' = NoMut

\* a step that consumes the container, returning r
Consume(o, r) ==
    /\ live
    /\ live' = FALSE
    /\ ref' = NoRef
    /\ op' = o
    /\ arg' = <<>>
    /\ ret' = r
    /\ outcome' = "ok"
    /\ delta' = Delta(Self)
    /\ rerun' = FALSE
    /\ UNCHANGED <<ty, rbuf, wbuf, fcalls, published, staged, publisher,
                   accum, snapshot>>

\* variant: unbuffer_read() panics when unpublished changes would be lost
UnbufferRead_checked ==
    IF rbuf = wbuf
    THEN Consume("unbuffer_read", <<unbuffer_read(Self)>>)
    ELSE /\ Step(Self, NoRef, "unbuffer_read", <<>>, <<>>, "panic")
         /\ UNCHANGED <<published, staged, publisher, accum, snapshot>>

\* let x = db.unbuffer_read();
UnbufferRead == Consume("unbuffer_read", <<unbuffer_read(Self)>>)

\* let x = db.unbuffer_write();
UnbufferWrite == Consume("unbuffer_write", <<unbuffer_write(Self)>>)

\* let x = *db;
Deref ==
    /\ Step(Self, NoRef, "deref", <<>>, <<Load(Self, deref(Self))>>, "ok")
    /\ UNCHANGED <<published, staged, publisher, accum, snapshot>>

\* the &mut T coerced from &mut db, as in `*db = v` or `db.push(x)`
DerefMut ==
    /\ Step(Self, Borrow(deref_mut(Self), "deref_mut"), "deref_mut",
            <<>>, <<>>, "ok")
    /\ UNCHANGED <<published, staged, publisher, accum, snapshot>>

\* let x = db[i];
Index ==
    \E i \in Positions :
        /\ ty = "vec"
        /\ LET p == index(Self, i)
           IN  IF Indexable(Self, p)
               THEN Step(Self, NoRef, "index", <<i>>, <<Load(Self, p)>>, "ok")
               ELSE Step(Self, NoRef, "index", <<i>>, <<>>, "panic")
        /\ UNCHANGED <<published, staged, publisher, accum, snapshot>>

\* the &mut Output formed by db[i] in a place expression, as in `db[i] = x`
IndexMut ==
    \E i \in Positions :
        /\ ty = "vec"
        /\ LET p == index_mut(Self, i)
           IN  IF Indexable(Self, p)
               THEN Step(Self, Borrow(p, "index_mut"), "index_mut",
                         <<i>>, <<>>, "ok")
               ELSE Step(Self, NoRef, "index_mut", <<i>>, <<>>, "panic")
        /\ UNCHANGED <<published, staged, publisher, accum, snapshot>>

\* accum after a mutation of the given kind, with operand v, is made
\* through the outstanding reference
Accumulate(kind, v) ==
    [val |-> CASE kind = "assign" -> v
               [] kind = "assign_elem" -> [accum.val EXCEPT ![ref.idx + 1] = v]
               [] kind = "push" -> Append(accum.val, v),
     mixed |-> IF staged = NoMut \/ staged.updated THEN FALSE
               ELSE accum.mixed \/ ref.via # staged.via]

\* *r = v; through the outstanding reference to a whole side
Assign ==
    \E v \in Values :
        /\ ref # NoRef
        /\ ref.idx = Whole
        /\ Step(Store(Self, ref, v), ref, "assign", <<v>>, <<>>, "ok")
        /\ staged' = Mutation(ref, "assign", v)
        /\ accum' = Accumulate("assign", v)
        /\ UNCHANGED <<published, publisher, snapshot>>

\* *r = x; through the outstanding reference to an element
AssignElem ==
    \E x \in Elem :
        /\ ref # NoRef
        /\ ref.idx # Whole
        /\ Step(Store(Self, ref, x), ref, "assign_elem", <<x>>, <<>>, "ok")
        /\ staged' = Mutation(ref, "assign_elem", x)
        /\ accum' = Accumulate("assign_elem", x)
        /\ UNCHANGED <<published, publisher, snapshot>>

\* r.push(x); through the outstanding reference to a whole side
Push ==
    \E x \in Elem :
        /\ ty = "vec"
        /\ ref # NoRef
        /\ ref.idx = Whole
        /\ Len(Load(Self, ref)) < MaxLen
        /\ Step(Store(Self, ref, Append(Load(Self, ref), x)), ref,
                "push", <<x>>, <<>>, "ok")
        /\ staged' = Mutation(ref, "push", x)
        /\ accum' = Accumulate("push", x)
        /\ UNCHANGED <<published, publisher, snapshot>>

Next ==
    \/ New
    \/ ConstructWith
    \/ Default
    \/ Read
    \/ Write
    \/ Update
    \/ Upsert
    \/ UnbufferRead
    \/ UnbufferWrite
    \/ Deref
    \/ DerefMut
    \/ Index
    \/ IndexMut
    \/ Assign
    \/ AssignElem
    \/ Push

Spec == Init /\ [][Next]_vars

TypeOK ==
    /\ ty \in Types
    /\ live \in BOOLEAN
    /\ rbuf \in Values
    /\ wbuf \in Values
    /\ published \in Values
    /\ outcome \in {"ok", "panic"}
    /\ fcalls \in 0..2

(***************************************************************************)
(* Properties.                                                             *)
(***************************************************************************)
MutationOps == {"assign", "assign_elem", "push"}
PublishOps == {"update", "upsert"}

\* C1: a mutation made through the reference returned by write() leaves the
\* read side (the value read() returns) unchanged, also when the preceding
\* publish was an update(); and on a given container the read side changes
\* only in a step that is update() or upsert().
C1_StagingInvisible ==
    [][/\ (op' \in MutationOps /\ ref'.via = "write") => rbuf' = rbuf
       /\ (op' \notin ConstructorOps /\ rbuf' # rbuf) => op' \in PublishOps
      ]_vars

\* a mutation through write() after an update() left the sides different
C1_Witness ==
    /\ live
    /\ op \in MutationOps
    /\ ref.via = "write"
    /\ publisher = "update"
    /\ delta.w
    /\ ~delta.dirty
    /\ rbuf # wbuf
    /\ rbuf = published

\* C2: after update() the read side equals the value the write side held
\* immediately before the call.
C2_UpdatePublishes == [][op' = "update" => rbuf' = wbuf]_vars

\* an update() that changed the read side
C2_Witness == op = "update" /\ delta.r /\ delta.dirty

\* C3: update() leaves the write side unchanged, so staged content survives
\* the publish.
C3_UpdateKeepsWriteSide == [][op' = "update" => wbuf' = wbuf]_vars

\* an update() that published a staged push, which is still in the write side
C3_Witness ==
    /\ op = "update"
    /\ delta.r
    /\ staged.kind = "push"
    /\ staged.updated
    /\ wbuf # T_default
    /\ wbuf[Len(wbuf)] = staged.val[1]

\* C4: upsert(v) and the sequence `*db.write() = v; db.update()` end in the
\* same state, whatever was staged before: both sides equal v.
C4_UpsertIsWriteThenUpdate ==
    [][/\ op' = "upsert" => (rbuf' = arg'[1] /\ wbuf' = arg'[1])
       /\ (op = "assign" /\ ref.via = "write" /\ op' = "update")
              => (rbuf' = arg[1] /\ wbuf' = arg[1])
      ]_vars

\* an upsert from a state with unpublished staged changes
C4_Witness ==
    /\ op = "upsert"
    /\ delta.dirty
    /\ delta.r
    /\ delta.w
    /\ rbuf = wbuf

\* the most recent mutation was `*db = v` through the mutable dereference
DerefAssigned == staged.via = "deref_mut" /\ staged.kind = "assign"

\* C5: after `*db = v`, `*db` yields the previously published value (0 for
\* a defaulted i32 assigned 3) until update() has run, and v once it has.
C5_DerefAsymmetric ==
    /\ (op = "deref" /\ DerefAssigned /\ ~staged.updated)
           => ret = <<published>>
    /\ (op = "deref" /\ DerefAssigned /\ staged.updated)
           => ret = staged.val
    /\ (op = "deref" /\ DerefAssigned /\ ~staged.updated
            /\ ty = "i32" /\ publisher = "default" /\ staged.val = <<3>>)
           => ret = <<0>>

\* `*db = 3` on a defaulted i32, then `*db` reads 0
C5_Witness ==
    /\ ty = "i32"
    /\ op = "deref"
    /\ DerefAssigned
    /\ ~staged.updated
    /\ publisher = "default"
    /\ staged.val = <<3>>
    /\ ret = <<0>>
    /\ wbuf = 3

\* the most recent mutation was `db[i] = x` through the mutable index, and
\* the last step was a successful `db[i]`
IndexedAfterIndexAssign ==
    /\ op = "index"
    /\ outcome = "ok"
    /\ staged.via = "index_mut"
    /\ staged.kind = "assign_elem"
    /\ arg = <<staged.idx>>

\* C6: after `db[i] = x`, `db[i]` reports the previously published element
\* at position i until update() has run, and x once it has.
C6_IndexAsymmetric ==
    /\ (IndexedAfterIndexAssign /\ ~staged.updated)
           => /\ staged.idx < Len(published)
              /\ ret = <<published[staged.idx + 1]>>
    /\ (IndexedAfterIndexAssign /\ staged.updated) => ret = staged.val

\* `db[i] = x` then `db[i]` reads the stale element
C6_Witness ==
    /\ IndexedAfterIndexAssign
    /\ ~staged.updated
    /\ ret # staged.val
    /\ wbuf[staged.idx + 1] = staged.val[1]

\* C7: unbuffer_read() returns the read side as it was after the most
\* recent publish or construction, and consumes the container, so what was
\* staged is gone.
C7_UnbufferReadDoesNotPublish ==
    op = "unbuffer_read" => (ret = <<published>> /\ ~live)

\* unbuffer_read() with an unpublished mutation staged
C7_Witness ==
    /\ op = "unbuffer_read"
    /\ staged # NoMut
    /\ ~staged.updated
    /\ wbuf # published
    /\ ret = <<published>>

\* the value staged by the most recent mutation is in v
Holds(v) ==
    CASE staged.kind = "assign" -> v = staged.val[1]
      [] staged.kind = "assign_elem" -> v[staged.idx + 1] = staged.val[1]
      [] staged.kind = "push" -> v # <<>> /\ v[Len(v)] = staged.val[1]
      [] OTHER -> TRUE

\* C8: unbuffer_write() returns the write side, including a mutation staged
\* through write() and never published, and consumes the container.
C8_UnbufferWriteReturnsStaged ==
    op = "unbuffer_write" =>
        /\ ret = <<wbuf>>
        /\ staged.via = "write" => Holds(ret[1])
        /\ ~live

\* unbuffer_write() with an unpublished mutation staged through write()
C8_Witness ==
    /\ op = "unbuffer_write"
    /\ staged.via = "write"
    /\ ~staged.updated
    /\ ret # <<published>>

\* C9: immediately after new(v), read(), unbuffer_read() and
\* unbuffer_write() each yield v.
C9_NewInitialisesBoth ==
    [][(op = "new" /\ op' \in {"read", "unbuffer_read", "unbuffer_write"})
           => ret' = arg]_vars

\* unbuffer_write() of a container made by new(v), v not the default
C9_Witness ==
    /\ op = "unbuffer_write"
    /\ publisher = "new"
    /\ staged = NoMut
    /\ ret = <<published>>
    /\ published # T_default

\* C10: construct_with calls the closure exactly twice, the read side is
\* the first result and the write side the second: equal for a pure
\* closure, unequal for a closure returning different values.
C10_ConstructWithCallsTwice ==
    op = "construct_with" =>
        /\ fcalls = 2
        /\ rbuf = Invoke(arg[1], 0).value
        /\ wbuf = Invoke(arg[1], 1).value
        /\ arg[1].pure => rbuf = wbuf
        /\ ~arg[1].pure => rbuf # wbuf

\* a container built from an impure closure
C10_Witness ==
    /\ op = "construct_with"
    /\ ~arg[1].pure
    /\ rbuf # wbuf
    /\ fcalls = 2

\* C11: default() is construct_with applied to T::default: the closure is
\* called once per side and both sides hold T's default value, 0 for an
\* i32 and the empty vector for a Vec.
C11_DefaultIsConstructWithDefault ==
    op = "default" =>
        /\ fcalls = 2
        /\ ty = "i32" => (rbuf = 0 /\ wbuf = 0)
        /\ ty = "vec" => (rbuf = <<>> /\ wbuf = <<>>)
        /\ [rbuf |-> rbuf, wbuf |-> wbuf, calls |-> fcalls]
               = construct_with([seed |-> T_default, pure |-> TRUE])

\* default() replacing a container whose sides were not the default
C11_Witness ==
    /\ op = "default"
    /\ live
    /\ delta.r
    /\ delta.w
    /\ rbuf = T_default
    /\ wbuf = T_default

\* C12: update() is idempotent: an update() directly after an update()
\* leaves both sides as the first one left them.
C12_UpdateIdempotent ==
    [][(op = "update" /\ op' = "update")
           => (rbuf' = rbuf /\ wbuf' = wbuf)]_vars

\* a second update() in a row, the first of which had published a mutation
C12_Witness ==
    /\ op = "update"
    /\ rerun
    /\ staged # NoMut
    /\ staged.updated
    /\ rbuf = wbuf
    /\ rbuf # T_default

C14_IndexFailsAsTheSideDoes ==
    /\ op = "index" =>
           /\ (outcome = "panic") <=> (arg[1] >= Len(rbuf))
           /\ outcome = "panic" => (~delta.r /\ ~delta.w)
    /\ op = "index_mut" =>
           /\ (outcome = "panic") <=> (arg[1] >= Len(wbuf))
           /\ outcome = "panic" => (~delta.r /\ ~delta.w)

\* after a push through the write side without update(), `db[0]` on the
\* empty read side panics
C14_Witness ==
    /\ op = "index"
    /\ outcome = "panic"
    /\ arg = <<0>>
    /\ rbuf = <<>>
    /\ wbuf # <<>>
    /\ staged.kind = "push"
    /\ ~staged.updated

\* C15: read(), the immutable dereference and a successful `db[i]` change
\* neither the read side nor the write side.
C15_ReadersHaveNoEffect ==
    [][(\/ op' \in {"read", "deref"}
        \/ (op' = "index" /\ outcome' = "ok"))
           => (rbuf' = rbuf /\ wbuf' = wbuf)]_vars

\* a read() while a mutation is staged: the sides still differ
C15_Witness ==
    /\ op = "read"
    /\ delta.dirty
    /\ ~delta.r
    /\ ~delta.w
    /\ rbuf # wbuf
    /\ ret = <<rbuf>>

\* C16: over i32, whose operations cannot fail, no operation ever fails,
\* the constructors can be called in every state, and every method can be
\* called in every state in which the container exists.
C16_NoFailureState ==
    ty = "i32" =>
        /\ outcome = "ok"
        /\ ENABLED New
        /\ ENABLED ConstructWith
        /\ ENABLED Default
        /\ live => /\ ENABLED Read
                   /\ ENABLED Write
                   /\ ENABLED Update
                   /\ ENABLED Upsert
                   /\ ENABLED UnbufferRead
                   /\ ENABLED UnbufferWrite

\* unbuffer_read() of an i32 container with an unpublished change completed
C16_Witness ==
    /\ ty = "i32"
    /\ op = "unbuffer_read"
    /\ outcome = "ok"
    /\ delta.dirty
    /\ ret = <<published>>

\* C17: the read side always equals the value the write side held at the
\* most recent update() or upsert(), or its own construction value when
\* nothing was published yet: never a staged value, never a mix.
C17_ReadSideIsSnapshot == rbuf = snapshot

\* after an update(), a further mutation is staged and the read side still
\* holds what that update() published
C17_Witness ==
    /\ live
    /\ publisher = "update"
    /\ staged # NoMut
    /\ ~staged.updated
    /\ rbuf # wbuf
    /\ rbuf # T_default
    /\ rbuf = snapshot

\* no mutation was made through a mutable reference since the construction
\* or the most recent update()/upsert()
NoMutationSince == staged = NoMut \/ staged.updated

\* the read side was last set by new(v), by default() or by a publish: every
\* state of a container built by new(v) or default() is one of these
SetTogether == publisher \in {"new", "default", "update", "upsert"}

\* C18: for a container built by new(v) or default(), whenever no write-side
\* mutation was made since the construction or the most recent publish, the
\* two sides are equal, so unbuffer_read() and unbuffer_write() return
\* equal values.
C18_SidesSynchronised ==
    (NoMutationSince /\ SetTogether) =>
        /\ rbuf = wbuf
        /\ unbuffer_read(Self) = unbuffer_write(Self)
        /\ op \in {"unbuffer_read", "unbuffer_write"}
               => (ret = <<rbuf>> /\ ret = <<wbuf>>)

\* unbuffer_read() of an unmutated container built by new(v) returns what
\* unbuffer_write() would have
C18_Witness ==
    /\ op = "unbuffer_read"
    /\ publisher = "new"
    /\ NoMutationSince
    /\ wbuf # T_default
    /\ ret = <<wbuf>>

====
